---- MODULE Spec2Model ----
(***************************************************************************)
(* State-machine model of app.py: the FastAPI backend with MongoDB-backed  *)
(* signup/login, JWT bearer tokens, per-user chat history and a lazily     *)
(* constructed RAG chain.                                                  *)
(*                                                                         *)
(* Handlers and dependencies declared with "def" run in the framework's    *)
(* thread pool, so several requests are in flight at once.  A request is   *)
(* cut into steps at its accesses to what it shares with other requests:   *)
(* the module globals (_db_client, _db, rag_chain), the store and the      *)
(* clock.  A dependency and the handler body are dispatched separately.    *)
(***************************************************************************)
EXTENDS Integers, Sequences, FiniteSets, TLC

\* ------------------------------------------------------------ bounds
MaxReq     == 4     \* requests served in one run
MaxUsers   == 2     \* user records the store may hold
MaxChats   == 2     \* chat records the store may hold
MaxTicks   == 2     \* times the wall clock advances in one run

\* the worker threads: every race of the handlers is a race of two requests
Threads == {"t1", "t2"}

\* ------------------------------------------------------------ configuration
JWT_SECRET         == "change-me-in-production"
JWT_ALGORITHM      == "HS256"
JWT_EXPIRE_MINUTES == 60 * 24 * 7
ListLimit          == 100

\* Python's None / an optional value
None    == << >>
Some(x) == << x >>
Val(o)  == o[1]

\* ------------------------------------------------------------ input sets
Emails     == {"a@x.org", "b@x.org"}
\* passwords are the code points of their text: "pw1", "pw2", and "p\0w", which
\* holds a NUL character
Pw1   == << 112, 119, 49 >>
Pw2   == << 112, 119, 50 >>
PwNul == << 112, 0, 119 >>
Passwords  == {Pw1, Pw2, PwNul}
\* the passwords signups are tried with (logins try every password)
SignupPasswords == {Pw1, PwNul}
\* the bodies of POST /chats
ChatBodies == { [question |-> "q1", answer |-> "a1", error |-> ""],
                [question |-> "q2", answer |-> "", error |-> "e2"] }
Salts      == {"salt1"}
\* the PyMongo releases the import can resolve to (no version is pinned):
\* up to 3.x a Database is true, from 4.0 on bool(Database) raises
PyMongoVersions == {3, 4}
\* values the two environment variables can have ("" = not set)
SrvUris    == {"", "mongodb+srv://h/db"}
StdUris    == {"", "mongodb://h/db"}
\* the deployments looked at: no database configured, or both URIs set
EnvChoices == { << "", "" >>, << "mongodb+srv://h/db", "mongodb://h/db" >> }
\* the clock is read in minutes and advances two thirds of a token lifetime at a time
TickMinutes == (2 * JWT_EXPIRE_MINUTES) \div 3

VARIABLES
    MONGODB_URI,           \* environment, read once at import
    MONGODB_URI_STANDARD,  \* environment, read once at import
    pymongo_major,         \* major version of the installed PyMongo
    up,                    \* the MongoDB server answers right now
    _db_client,            \* the module global _db_client: None or Some(client)
    _db,                   \* the module global _db: None or Some(database)
    pinged,                \* the clients on which a ping has succeeded
    users,                 \* the "users" collection, in insertion order
    chats,                 \* the "chats" collection, in insertion order
    now,                   \* datetime.utcnow(), in minutes
    rag_chain,             \* the module global rag_chain: 0 = None, n = n-th instance
    constructed,           \* chains assigned to rag_chain so far
    issued,                \* tokens handed to clients, with the record and time of issue
    nreq,                  \* requests accepted so far
    th,                    \* per thread: the request it serves and its locals
    sent                   \* the response that has just left the server, with its request

vars == << MONGODB_URI, MONGODB_URI_STANDARD, pymongo_major, up, _db_client, _db, pinged,
           users, chats, now, rag_chain, constructed, issued, nreq, th, sent >>

\* ------------------------------------------------------------ pure helpers
\* str(ObjectId): the ObjectId the store assigns to the n-th inserted document
\* of a collection, rendered as text
ObjectIdText == << "oid-1", "oid-2", "oid-3", "oid-4", "oid-5", "oid-6", "oid-7", "oid-8" >>
ObjectIdStr(n) == ObjectIdText[n]

\* passlib's limit on the size of a secret
MAX_PASSWORD_SIZE == 4096
\* the secrets pwd_context.hash and pwd_context.verify take: for any other the
\* bcrypt handler raises (PasswordSizeError, NullPasswordError)
PwdValid(password) ==
    /\ Len(password) <= MAX_PASSWORD_SIZE
    /\ \A i \in 1..Len(password) : password[i] # 0
\* pwd_context.hash / pwd_context.verify of such a secret (bcrypt: the hash
\* embeds its salt)
PwdHash(password, salt) == [scheme |-> "bcrypt", salt |-> salt, digest |-> << salt, password >>]
PwdVerify(password, hashed) == hashed = PwdHash(password, hashed.salt)

\* jose.jwt: HS256 signature over the claims with a key
JwtSign(claims, key) == << JWT_ALGORITHM, key, claims >>
JwtEncode(claims, key) == [claims |-> claims, sig |-> JwtSign(claims, key)]
\* jwt.decode: "ok" with the claims, or JWTError (bad signature, expired)
JwtDecode(token, key, t) ==
    IF token.sig # JwtSign(token.claims, key) THEN [ok |-> FALSE, claims |-> token.claims]
    ELSE IF token.claims.exp < t THEN [ok |-> FALSE, claims |-> token.claims]
    ELSE [ok |-> TRUE, claims |-> token.claims]

\* the lifetime given to timedelta in the wrong unit (hours as minutes)
create_access_token_short(data, t) ==
    JwtEncode([sub |-> data.sub, email |-> data.email,
               exp |-> t + (JWT_EXPIRE_MINUTES \div 60)], JWT_SECRET)

create_access_token(data, t) ==
    JwtEncode([sub |-> data.sub, email |-> data.email, exp |-> t + JWT_EXPIRE_MINUTES],
              JWT_SECRET)

\* get_current_user with the signature and the expiry left unverified
get_current_user_unverified(creds, t) ==
    IF creds = None THEN [ok |-> FALSE, detail |-> "Not authenticated", user |-> None]
    ELSE [ok |-> TRUE, detail |-> "",
          user |-> Some([id |-> Val(creds).claims.sub, email |-> Val(creds).claims.email])]

\* get_current_user: Some(identity), or None for the 401 it raises
get_current_user(creds, t) ==
    IF creds = None THEN [ok |-> FALSE, detail |-> "Not authenticated", user |-> None]
    ELSE LET d == JwtDecode(Val(creds), JWT_SECRET, t) IN
         IF ~d.ok THEN [ok |-> FALSE, detail |-> "Invalid token", user |-> None]
         ELSE IF d.claims.sub = "" THEN [ok |-> FALSE, detail |-> "Invalid token", user |-> None]
         ELSE [ok |-> TRUE, detail |-> "",
               user |-> Some([id |-> d.claims.sub, email |-> d.claims.email])]

\* ------------------------------------------------------------ threads
\* a response: status, the detail of an error, the body of a 200, and the class of
\* the exception that left the handler uncaught ("" when none did)
NoResp == [status |-> 0, detail |-> "", body |-> << >>, escaped |-> ""]
Idle == [kind |-> "none", pc |-> "idle", email |-> "", password |-> << >>,
         creds |-> None, user |-> None, oid |-> 0, body |-> None, i |-> 0,
         client |-> None, db |-> None, doc |-> None, chain |-> 0]

\* the framework turns an HTTPException into a response
HttpError(status, detail) ==
    [status |-> status, detail |-> detail, body |-> << >>, escaped |-> ""]
\* a return value becomes a 200 response
HttpOk(body) == [status |-> 200, detail |-> "", body |-> << body >>, escaped |-> ""]
\* an exception the handler does not catch leaves it; the server answers 500
Unhandled(exc) == [status |-> 500, detail |-> "Internal Server Error", body |-> << >>,
                   escaped |-> exc]

Free(p) == th[p].pc = "idle"
Accept == nreq < MaxReq /\ nreq' = nreq + 1

\* sent while no response has just left the server
NoSent == [kind |-> "none", email |-> "", password |-> << >>, creds |-> None,
           chain |-> 0, resp |-> NoResp]

\* the request goes on to its next step
Continue(p, r) ==
    /\ th' = [th EXCEPT ![p] = r]
    /\ sent' = NoSent

\* the response leaves the server: the thread is free again
Respond(p, r, resp) ==
    /\ th' = [th EXCEPT ![p] = Idle]
    /\ sent' = [kind |-> r.kind, email |-> r.email, password |-> r.password,
                creds |-> r.creds, chain |-> r.chain, resp |-> resp]

Init ==
    /\ \E e \in EnvChoices : MONGODB_URI = e[1] /\ MONGODB_URI_STANDARD = e[2]
    /\ pymongo_major \in PyMongoVersions
    /\ up = TRUE
    /\ _db_client = None
    /\ _db = None
    /\ pinged = {}
    /\ users = << >>
    /\ chats = << >>
    /\ now = 0
    /\ rag_chain = 0
    /\ constructed = 0
    /\ issued = {}
    /\ nreq = 0
    /\ th = [p \in Threads |-> Idle]
    /\ sent = NoSent

Env == UNCHANGED << MONGODB_URI, MONGODB_URI_STANDARD, pymongo_major, up, now >>

\* ------------------------------------------------------------ get_db
\* line 41
uris_to_try == SelectSeq(<< MONGODB_URI, MONGODB_URI_STANDARD >>, LAMBDA u : u # "")

\* MongoClient(uri, ...): the client thread p creates for uri
Client(uri, p) == [uri |-> uri, by |-> p]
\* client.get_default_database()
Database(client) == [client |-> client]

\* what MongoClient(uri) can do: a mongodb+srv URI is resolved in the constructor,
\* which raises ConfigurationError when the lookup fails
ClientOutcomes(uri) == IF uri \in SrvUris THEN {"ok", "config_error"} ELSE {"ok"}

\* the position in the code that follows "db = get_db()" and "if not db" when the
\* handle counts as true
AfterDb(kind) ==
    CASE kind = "signup" -> "su_find"
      [] kind = "login"  -> "li_find"
      [] kind = "save"   -> "sv_doc"
      [] kind = "list"   -> "ls_find"

\* "not db" in the handlers: None is false; a Database is true up to PyMongo 3.x,
\* and from 4.0 on its __bool__ raises NotImplementedError
Not(db) ==
    IF db = None THEN "true"
    ELSE IF pymongo_major >= 4 THEN "raises" ELSE "false"

\* get_db returns ret: "db = get_db()" and "if not db: raise HTTPException(503)"
\* of the calling handler (lines 182-184, 208-210, 231-233, 245-247; the test is
\* outside the handler's try)
Return(p, r, ret) ==
    LET n == Not(ret) IN
    IF n = "true" THEN Respond(p, r, HttpError(503, "Database not configured"))
    ELSE IF n = "raises" THEN Respond(p, r, Unhandled("NotImplementedError"))
    ELSE Continue(p, [r EXCEPT !.pc = AfterDb(r.kind), !.db = ret])

\* lines 41-44 for the request r that thread p starts or goes on with: no URI is
\* configured, or the test of the cached handle
get_db(p, r) ==
    IF uris_to_try = << >> THEN Return(p, r, None)
    ELSE IF _db # None THEN Continue(p, [r EXCEPT !.pc = "db_cached"])
    ELSE Continue(p, [r EXCEPT !.pc = "db_client", !.i = 1])

\* lines 52-58: the loop goes on with the next URI; after the last one get_db
\* returns None
NextUri(p, r) ==
    IF r.i < Len(uris_to_try)
    THEN Continue(p, [r EXCEPT !.pc = "db_client", !.i = r.i + 1])
    ELSE Return(p, r, None)

\* the positions inside the for loop of get_db
GetDbLoop == {"db_client", "db_database", "db_assign", "db_admin", "db_ping", "db_return"}

\* line 45: return _db
get_db_cached(p) ==
    /\ th[p].pc = "db_cached"
    /\ Return(p, th[p], _db)
    /\ Env
    /\ UNCHANGED << _db_client, _db, pinged, users, chats, rag_chain, constructed,
                    issued, nreq >>

\* line 48: _db_client = MongoClient(uri, ...)
get_db_client(p) ==
    /\ th[p].pc = "db_client"
    /\ LET uri == uris_to_try[th[p].i] IN
       \E o \in ClientOutcomes(uri) :
         IF o = "config_error"
         THEN /\ NextUri(p, th[p])
              /\ UNCHANGED _db_client
         ELSE /\ _db_client' = Some(Client(uri, p))
              /\ Continue(p, [th[p] EXCEPT !.pc = "db_database"])
    /\ Env
    /\ UNCHANGED << _db, pinged, users, chats, rag_chain, constructed, issued, nreq >>

\* line 49, right-hand side: _db_client.get_default_database() on the client the
\* global _db_client holds now
get_db_database(p) ==
    /\ th[p].pc = "db_database"
    /\ Continue(p, [th[p] EXCEPT !.pc = "db_assign", !.client = _db_client])
    /\ Env
    /\ UNCHANGED << _db_client, _db, pinged, users, chats, rag_chain, constructed,
                    issued, nreq >>

\* line 49, the assignment: _db = the database just obtained
get_db_assign(p) ==
    /\ th[p].pc = "db_assign"
    /\ _db' = Some(Database(Val(th[p].client)))
    /\ Continue(p, [th[p] EXCEPT !.pc = "db_admin", !.client = None])
    /\ Env
    /\ UNCHANGED << _db_client, pinged, users, chats, rag_chain, constructed, issued, nreq >>

\* line 50, _db_client.admin: the client the global _db_client holds now
get_db_admin(p) ==
    /\ th[p].pc = "db_admin"
    /\ Continue(p, [th[p] EXCEPT !.pc = "db_ping", !.client = _db_client])
    /\ Env
    /\ UNCHANGED << _db_client, _db, pinged, users, chats, rag_chain, constructed,
                    issued, nreq >>

\* line 50, command("ping") on that client; lines 55-57 when it raises
get_db_ping(p) ==
    /\ th[p].pc = "db_ping"
    /\ IF up
       THEN /\ pinged' = pinged \cup {Val(th[p].client)}
            /\ Continue(p, [th[p] EXCEPT !.pc = "db_return", !.client = None])
       ELSE /\ NextUri(p, [th[p] EXCEPT !.client = None])
            /\ UNCHANGED pinged
    /\ Env
    /\ UNCHANGED << _db_client, _db, users, chats, rag_chain, constructed, issued, nreq >>

\* line 51: return _db
get_db_return(p) ==
    /\ th[p].pc = "db_return"
    /\ Return(p, th[p], _db)
    /\ Env
    /\ UNCHANGED << _db_client, _db, pinged, users, chats, rag_chain, constructed,
                    issued, nreq >>

GetDb(p) ==
    \/ get_db_cached(p) \/ get_db_client(p) \/ get_db_database(p) \/ get_db_assign(p)
    \/ get_db_admin(p) \/ get_db_ping(p) \/ get_db_return(p)

\* ------------------------------------------------------------ clients
\* a token signed by somebody who does not know JWT_SECRET
ForgedToken ==
    JwtEncode([sub |-> "oid-1", email |-> "a@x.org", exp |-> 10 * JWT_EXPIRE_MINUTES],
              "not-the-secret")
\* what a client can put in the Authorization header
ClientCreds == {None} \cup {Some(i.token) : i \in issued} \cup {Some(ForgedToken)}

\* users.find_one({"email": email}): the first match in natural order, or None
find_one(coll, email) ==
    LET hits == SelectSeq(coll, LAMBDA u : u.email = email)
    IN IF hits = << >> THEN None ELSE Some(Head(hits))

\* signups that have not yet inserted, saves that have not yet inserted
SignupsInFlight ==
    Cardinality({ q \in Threads : th[q].kind = "signup" /\ th[q].pc # "su_token" })
SavesInFlight == Cardinality({ q \in Threads : th[q].kind = "save" })

\* ------------------------------------------------------------ POST /auth/signup
\* lines 181-182: the request arrives with one of these passwords, get_db() up
\* to its test of the cache
auth_signup(p, passwords) ==
    /\ Free(p) /\ Accept
    /\ Len(users) + SignupsInFlight < MaxUsers
    /\ \E email \in Emails, password \in passwords :
         get_db(p, [Idle EXCEPT !.kind = "signup", !.email = email,
                                !.password = password])
    /\ Env
    /\ UNCHANGED << _db_client, _db, pinged, users, chats, rag_chain, constructed, issued >>

\* auth_signup_find without the duplicate check
auth_signup_find_unchecked(p) ==
    /\ th[p].pc = "su_find"
    /\ \E salt \in Salts :
         LET r == th[p]
             doc == [email |-> r.email, password |-> PwdHash(r.password, salt)]
         IN IF ~up \/ ~PwdValid(r.password)
            THEN Respond(p, r, HttpError(503, "Database error"))
            ELSE Continue(p, [r EXCEPT !.pc = "su_insert", !.doc = Some(doc)])
    /\ Env
    /\ UNCHANGED << _db_client, _db, pinged, users, chats, rag_chain, constructed,
                    issued, nreq >>

\* lines 186-191: find_one, the duplicate check, the hash (lines 198-200 when
\* find_one or the hash raises), the document to insert
\* (its createdAt, which no handler reads, is left out)
auth_signup_find(p) ==
    /\ th[p].pc = "su_find"
    /\ \E salt \in Salts :
         LET r == th[p]
             existing == find_one(users, r.email)
             doc == [email |-> r.email, password |-> PwdHash(r.password, salt)]
         IN IF ~up THEN Respond(p, r, HttpError(503, "Database error"))
            ELSE IF existing # None
                 THEN Respond(p, r, HttpError(400, "Email already registered"))
                 ELSE IF ~PwdValid(r.password)
                 THEN Respond(p, r, HttpError(503, "Database error"))
                 ELSE Continue(p, [r EXCEPT !.pc = "su_insert", !.doc = Some(doc)])
    /\ Env
    /\ UNCHANGED << _db_client, _db, pinged, users, chats, rag_chain, constructed,
                    issued, nreq >>

\* auth_signup_insert over a store that enforces a unique index on email
auth_signup_insert_unique(p) ==
    /\ th[p].pc = "su_insert"
    /\ LET r == th[p]
           oid == Len(users) + 1
       IN IF ~up \/ find_one(users, r.email) # None
          THEN /\ Respond(p, r, HttpError(503, "Database error"))
               /\ UNCHANGED users
          ELSE /\ users' = Append(users, [_id |-> oid, email |-> Val(r.doc).email,
                                          password |-> Val(r.doc).password])
               /\ Continue(p, [r EXCEPT !.pc = "su_token", !.oid = oid])
    /\ Env
    /\ UNCHANGED << _db_client, _db, pinged, chats, rag_chain, constructed, issued, nreq >>

\* line 192: insert_one; lines 198-200 when it raises
auth_signup_insert(p) ==
    /\ th[p].pc = "su_insert"
    /\ LET r == th[p]
           oid == Len(users) + 1
       IN IF ~up
          THEN /\ Respond(p, r, HttpError(503, "Database error"))
               /\ UNCHANGED users
          ELSE /\ users' = Append(users, [_id |-> oid, email |-> Val(r.doc).email,
                                          password |-> Val(r.doc).password])
               /\ Continue(p, [r EXCEPT !.pc = "su_token", !.oid = oid])
    /\ Env
    /\ UNCHANGED << _db_client, _db, pinged, chats, rag_chain, constructed, issued, nreq >>

\* lines 193-195: the token (create_access_token reads the clock), the response
auth_signup_token(p) ==
    /\ th[p].pc = "su_token"
    /\ LET r == th[p]
           user_id == ObjectIdStr(r.oid)
           token == create_access_token([sub |-> user_id, email |-> r.email], now)
       IN /\ issued' = issued \cup {[token |-> token, oid |-> r.oid, at |-> now]}
          /\ Respond(p, r, HttpOk([token |-> token,
                                   user |-> [id |-> user_id, email |-> r.email]]))
    /\ Env
    /\ UNCHANGED << _db_client, _db, pinged, users, chats, rag_chain, constructed, nreq >>

\* ------------------------------------------------------------ POST /auth/login
\* lines 207-208: the request arrives with one of these passwords, get_db() up
\* to its test of the cache
auth_login(p, passwords) ==
    /\ Free(p) /\ Accept
    /\ \E email \in Emails, password \in passwords :
         get_db(p, [Idle EXCEPT !.kind = "login", !.email = email,
                                !.password = password])
    /\ Env
    /\ UNCHANGED << _db_client, _db, pinged, users, chats, rag_chain, constructed, issued >>

\* lines 212-216: find_one, the password check, which runs only on a record that
\* was found; lines 221-223 when find_one or pwd_context.verify raises
auth_login_find(p) ==
    /\ th[p].pc = "li_find"
    /\ LET r == th[p]
           user == find_one(users, r.email)
       IN IF ~up
          THEN Respond(p, r, HttpError(503, "Database error"))
          ELSE IF user = None
          THEN Respond(p, r, HttpError(401, "Invalid email or password"))
          ELSE IF ~PwdValid(r.password)
          THEN Respond(p, r, HttpError(503, "Database error"))
          ELSE IF ~PwdVerify(r.password, Val(user).password)
          THEN Respond(p, r, HttpError(401, "Invalid email or password"))
          ELSE Continue(p, [r EXCEPT !.pc = "li_token", !.oid = Val(user)._id,
                                     !.user = Some([id |-> ObjectIdStr(Val(user)._id),
                                                    email |-> Val(user).email])])
    /\ Env
    /\ UNCHANGED << _db_client, _db, pinged, users, chats, rag_chain, constructed,
                    issued, nreq >>

\* lines 217-218: the token (create_access_token reads the clock), the response
auth_login_token(p) ==
    /\ th[p].pc = "li_token"
    /\ LET r == th[p]
           token == create_access_token([sub |-> Val(r.user).id,
                                         email |-> Val(r.user).email], now)
       IN /\ issued' = issued \cup {[token |-> token, oid |-> r.oid, at |-> now]}
          /\ Respond(p, r, HttpOk([token |-> token,
                                   user |-> [id |-> Val(r.user).id,
                                             email |-> Val(r.user).email]]))
    /\ Env
    /\ UNCHANGED << _db_client, _db, pinged, users, chats, rag_chain, constructed, nreq >>

\* ------------------------------------------------------------ GET /auth/me
\* line 226: the request arrives, the dependency get_current_user
auth_me(p) ==
    /\ Free(p) /\ Accept
    /\ \E creds \in ClientCreds :
         LET a == get_current_user(creds, now)
             r == [Idle EXCEPT !.kind = "me", !.creds = creds, !.user = a.user]
         IN IF ~a.ok THEN Respond(p, r, HttpError(401, a.detail))
            ELSE Continue(p, [r EXCEPT !.pc = "me_body"])
    /\ Env
    /\ UNCHANGED << _db_client, _db, pinged, users, chats, rag_chain, constructed, issued >>

\* line 227: the handler body, dispatched after the dependency
auth_me_body(p) ==
    /\ th[p].pc = "me_body"
    /\ Respond(p, th[p], HttpOk([id |-> Val(th[p].user).id,
                                 email |-> Val(th[p].user).email]))
    /\ Env
    /\ UNCHANGED << _db_client, _db, pinged, users, chats, rag_chain, constructed,
                    issued, nreq >>

\* ------------------------------------------------------------ POST /chats
\* line 230: the request arrives, the dependency get_current_user
chats_save(p) ==
    /\ Free(p) /\ Accept
    /\ Len(chats) + SavesInFlight < MaxChats
    /\ \E creds \in ClientCreds, body \in ChatBodies :
         LET a == get_current_user(creds, now)
             r == [Idle EXCEPT !.kind = "save", !.creds = creds, !.user = a.user,
                               !.body = Some(body)]
         IN IF ~a.ok THEN Respond(p, r, HttpError(401, a.detail))
            ELSE Continue(p, [r EXCEPT !.pc = "sv_body"])
    /\ Env
    /\ UNCHANGED << _db_client, _db, pinged, users, chats, rag_chain, constructed, issued >>

\* line 231: the handler body, dispatched after the dependency: get_db() up to its
\* test of the cache
chats_save_body(p) ==
    /\ th[p].pc = "sv_body"
    /\ get_db(p, th[p])
    /\ Env
    /\ UNCHANGED << _db_client, _db, pinged, users, chats, rag_chain, constructed,
                    issued, nreq >>

\* lines 234-240, the argument of insert_one: the document with its own createdAt
chats_save_doc(p) ==
    /\ th[p].pc = "sv_doc"
    /\ LET r == th[p] IN
       Continue(p, [r EXCEPT !.pc = "sv_insert",
                             !.doc = Some([userId |-> Val(r.user).id,
                                           question |-> Val(r.body).question,
                                           answer |-> Val(r.body).answer,
                                           error |-> Val(r.body).error,
                                           createdAt |-> now])])
    /\ Env
    /\ UNCHANGED << _db_client, _db, pinged, users, chats, rag_chain, constructed,
                    issued, nreq >>

\* lines 234-241: insert_one (outside any try) and the response
chats_save_insert(p) ==
    /\ th[p].pc = "sv_insert"
    /\ LET r == th[p]
           d == Val(r.doc)
       IN IF ~up
          THEN /\ Respond(p, r, Unhandled("PyMongoError"))
               /\ UNCHANGED chats
          ELSE /\ chats' = Append(chats, [_id |-> Len(chats) + 1, userId |-> d.userId,
                                          question |-> d.question, answer |-> d.answer,
                                          error |-> d.error, createdAt |-> d.createdAt])
               /\ Respond(p, r, HttpOk([ok |-> TRUE]))
    /\ Env
    /\ UNCHANGED << _db_client, _db, pinged, users, rag_chain, constructed, issued, nreq >>

\* ------------------------------------------------------------ GET /chats
\* datetime.isoformat()
IsoFormat(t) == << "iso-8601", t >>

\* the documents find({"userId": uid}) matches, in natural order
FindByUser(coll, uid) == SelectSeq(coll, LAMBDA c : c.userId = uid)

\* the sort with the direction reversed: .sort("createdAt", -1)
SortDescending(docs) ==
    LET n == Len(docs)
        perms == { f \in [1..n -> 1..n] : \A i, j \in 1..n : i # j => f[i] # f[j] }
    IN { [i \in 1..n |-> docs[f[i]]] : f \in
           { g \in perms : \A i, j \in 1..n :
                              i < j => docs[g[i]].createdAt >= docs[g[j]].createdAt } }

\* .sort("createdAt", 1): every arrangement of docs with ascending createdAt
\* (the store does not fix the order of documents with equal keys)
SortAscending(docs) ==
    LET n == Len(docs)
        perms == { f \in [1..n -> 1..n] : \A i, j \in 1..n : i # j => f[i] # f[j] }
    IN { [i \in 1..n |-> docs[f[i]]] : f \in
           { g \in perms : \A i, j \in 1..n :
                              i < j => docs[g[i]].createdAt <= docs[g[j]].createdAt } }

\* .limit(n)
Limit(docs, n) == SubSeq(docs, 1, IF Len(docs) < n THEN Len(docs) ELSE n)

\* lines 251-256: one response item per document
ListItem(doc) == [question |-> doc.question, answer |-> doc.answer, error |-> doc.error,
                  createdAt |-> IsoFormat(doc.createdAt)]

\* line 248: the cursors the query can produce
ChatCursors(coll, uid) ==
    { Limit(s, ListLimit) : s \in SortAscending(FindByUser(coll, uid)) }

\* line 244: the request arrives, the dependency get_current_user
chats_list(p) ==
    /\ Free(p) /\ Accept
    /\ \E creds \in ClientCreds :
         LET a == get_current_user(creds, now)
             r == [Idle EXCEPT !.kind = "list", !.creds = creds, !.user = a.user]
         IN IF ~a.ok THEN Respond(p, r, HttpError(401, a.detail))
            ELSE Continue(p, [r EXCEPT !.pc = "ls_body"])
    /\ Env
    /\ UNCHANGED << _db_client, _db, pinged, users, chats, rag_chain, constructed, issued >>

\* line 245: the handler body, dispatched after the dependency: get_db() up to its
\* test of the cache
chats_list_body(p) ==
    /\ th[p].pc = "ls_body"
    /\ get_db(p, th[p])
    /\ Env
    /\ UNCHANGED << _db_client, _db, pinged, users, chats, rag_chain, constructed,
                    issued, nreq >>

\* lines 248-257: the query (outside any try) and the response
chats_list_find(p) ==
    /\ th[p].pc = "ls_find"
    /\ LET r == th[p] IN
       IF ~up
       THEN Respond(p, r, Unhandled("PyMongoError"))
       ELSE \E cursor \in ChatCursors(chats, Val(r.user).id) :
              Respond(p, r, HttpOk([chats |->
                                      [i \in 1..Len(cursor) |-> ListItem(cursor[i])]]))
    /\ Env
    /\ UNCHANGED << _db_client, _db, pinged, users, chats, rag_chain, constructed,
                    issued, nreq >>

\* ------------------------------------------------------------ POST /chat
\* chat over a get_rag_chain that constructs on every call
chat_unconditional(p) ==
    /\ Free(p) /\ Accept
    /\ Continue(p, [Idle EXCEPT !.kind = "chat", !.pc = "ch_construct"])
    /\ Env
    /\ UNCHANGED << _db_client, _db, pinged, users, chats, rag_chain, constructed, issued >>

\* lines 260-263, 83-84: the request arrives, the first-use check of get_rag_chain
chat(p) ==
    /\ Free(p) /\ Accept
    /\ Continue(p, [Idle EXCEPT !.kind = "chat",
                                !.pc = IF rag_chain = 0 THEN "ch_construct"
                                                        ELSE "ch_return"])
    /\ Env
    /\ UNCHANGED << _db_client, _db, pinged, users, chats, rag_chain, constructed, issued >>

\* what lines 85-113 can do: raise before the assignment of line 113, or assign
ConstructOutcomes == {"raises", "assigned"}
\* what the print of line 119 can do: a stdout that cannot encode the line, or
\* is closed, raises
PrintOutcomes == {"printed", "raises"}

\* the construction with get_rag_chain() called outside the try of chat
get_rag_chain_construct_outside_try(p) ==
    /\ th[p].pc = "ch_construct"
    /\ \E o \in ConstructOutcomes :
         IF o = "raises"
         THEN /\ Respond(p, th[p], Unhandled("Exception"))
              /\ UNCHANGED << rag_chain, constructed >>
         ELSE /\ constructed' = constructed + 1
              /\ rag_chain' = constructed + 1
              /\ Continue(p, [th[p] EXCEPT !.pc = "ch_print"])
    /\ Env
    /\ UNCHANGED << _db_client, _db, pinged, users, chats, issued, nreq >>

\* lines 85-113 inside the try of chat (lines 266-267 when they raise): the
\* construction and the assignment of the global
get_rag_chain_construct(p) ==
    /\ th[p].pc = "ch_construct"
    /\ \E o \in ConstructOutcomes :
         IF o = "raises"
         THEN /\ Respond(p, th[p], HttpError(500, "construction failed"))
              /\ UNCHANGED << rag_chain, constructed >>
         ELSE /\ constructed' = constructed + 1
              /\ rag_chain' = constructed + 1
              /\ Continue(p, [th[p] EXCEPT !.pc = "ch_print"])
    /\ Env
    /\ UNCHANGED << _db_client, _db, pinged, users, chats, issued, nreq >>

\* line 119: the closing print (lines 266-267 when it raises)
get_rag_chain_print(p) ==
    /\ th[p].pc = "ch_print"
    /\ \E o \in PrintOutcomes :
         IF o = "raises" THEN Respond(p, th[p], HttpError(500, "print failed"))
         ELSE Continue(p, [th[p] EXCEPT !.pc = "ch_return"])
    /\ Env
    /\ UNCHANGED << _db_client, _db, pinged, users, chats, rag_chain, constructed,
                    issued, nreq >>

\* line 120: return rag_chain, the global as it is now
get_rag_chain_return(p) ==
    /\ th[p].pc = "ch_return"
    /\ Continue(p, [th[p] EXCEPT !.pc = "ch_invoke", !.chain = rag_chain])
    /\ Env
    /\ UNCHANGED << _db_client, _db, pinged, users, chats, rag_chain, constructed,
                    issued, nreq >>

\* lines 264-267: chain.invoke on the chain get_rag_chain returned, the response
chat_invoke(p) ==
    /\ th[p].pc = "ch_invoke"
    /\ \E ok \in BOOLEAN :
         IF ok THEN Respond(p, th[p], HttpOk([answer |-> "Helpful Answer: V5 ..."]))
         ELSE Respond(p, th[p], HttpError(500, "invoke failed"))
    /\ Env
    /\ UNCHANGED << _db_client, _db, pinged, users, chats, rag_chain, constructed,
                    issued, nreq >>

\* ------------------------------------------------------------ environment
\* the wall clock advances
Tick ==
    /\ now < MaxTicks * TickMinutes
    /\ now' = now + TickMinutes
    /\ sent' = NoSent
    /\ UNCHANGED << MONGODB_URI, MONGODB_URI_STANDARD, pymongo_major, up, _db_client, _db,
                    pinged, users, chats, rag_chain, constructed, issued, nreq, th >>

\* the MongoDB server becomes unreachable, or reachable again
StoreFlip ==
    /\ up' = ~up
    /\ sent' = NoSent
    /\ UNCHANGED << MONGODB_URI, MONGODB_URI_STANDARD, pymongo_major, _db_client, _db,
                    pinged, users, chats, now, rag_chain, constructed, issued, nreq, th >>

\* ------------------------------------------------------------ specifications
Signup(p) ==
    \/ auth_signup(p, SignupPasswords)
    \/ auth_signup_find(p) \/ auth_signup_insert(p) \/ auth_signup_token(p)
Login(p)  == auth_login(p, Passwords) \/ auth_login_find(p) \/ auth_login_token(p)
\* the same two routes, called with the well-formed password Pw1 only
Register(p) ==
    \/ auth_signup(p, {Pw1})
    \/ auth_signup_find(p) \/ auth_signup_insert(p) \/ auth_signup_token(p)
SignIn(p) == auth_login(p, {Pw1}) \/ auth_login_find(p) \/ auth_login_token(p)
Me(p)     == auth_me(p) \/ auth_me_body(p)
Save(p)   == chats_save(p) \/ chats_save_body(p) \/ chats_save_doc(p) \/ chats_save_insert(p)
List(p)   == chats_list(p) \/ chats_list_body(p) \/ chats_list_find(p)
Chat(p)   ==
    \/ chat(p) \/ get_rag_chain_construct(p) \/ get_rag_chain_print(p)
    \/ get_rag_chain_return(p) \/ chat_invoke(p)

\* the whole application
Next ==
    \/ \E p \in Threads :
         GetDb(p) \/ Signup(p) \/ Login(p) \/ Me(p) \/ Save(p) \/ List(p) \/ Chat(p)
    \/ Tick
    \/ StoreFlip

Spec == Init /\ [][Next]_vars

\* clients that only sign up, while the server comes and goes
SignupNext ==
    \/ \E p \in Threads : GetDb(p) \/ Signup(p)
    \/ StoreFlip

SignupSpec == Init /\ [][SignupNext]_vars

\* clients that register and log in with any password, while the server comes
\* and goes
LoginNext ==
    \/ \E p \in Threads : GetDb(p) \/ Register(p) \/ Login(p)
    \/ StoreFlip

LoginSpec == Init /\ [][LoginNext]_vars

\* clients that register, log in and ask who they are over a server that stays up, as time passes
TokenNext ==
    \/ \E p \in Threads : GetDb(p) \/ Register(p) \/ SignIn(p) \/ Me(p)
    \/ Tick

TokenSpec == Init /\ [][TokenNext]_vars

\* clients that register and save and list chats over a server that stays up, as
\* time passes
HistoryNext ==
    \/ \E p \in Threads : GetDb(p) \/ Register(p) \/ Save(p) \/ List(p)
    \/ Tick

HistorySpec == Init /\ [][HistoryNext]_vars

\* clients that register and save and list chats, while the server comes and goes
OutageNext ==
    \/ \E p \in Threads : GetDb(p) \/ Register(p) \/ Save(p) \/ List(p)
    \/ StoreFlip

OutageSpec == Init /\ [][OutageNext]_vars

\* clients that register and list chats, as time passes and the server comes and goes
ListNext ==
    \/ \E p \in Threads : GetDb(p) \/ Register(p) \/ List(p)
    \/ Tick
    \/ StoreFlip

ListSpec == Init /\ [][ListNext]_vars

\* clients that only ask questions
RagNext == \E p \in Threads : Chat(p)

RagSpec == Init /\ [][RagNext]_vars

\* ------------------------------------------------------------ properties
\* a request of this kind is accepted: it is answered at once or a thread goes on with it
Arrives(kind) ==
    /\ nreq' = nreq + 1
    /\ \/ sent'.kind = kind
       \/ \E p \in Threads : th[p].pc = "idle" /\ th'[p].pc # "idle" /\ th'[p].kind = kind
\* thread p takes the step of its request that starts at pc
StepsFrom(p, pc) == th[p].pc = pc /\ th'[p].pc # pc
\* thread p takes a step of a request of this kind that it already serves
StepsIn(p, kind) == th[p].kind = kind /\ th'[p] # th[p]
HasEmail(coll, email) == \E i \in 1..Len(coll) : coll[i].email = email

\* C1: a signup whose lookup finds its email in a stored user record is answered
\* 400 "Email already registered" and adds no user record: no step of a signup
\* other than its insert changes the users collection, and that signup never
\* reaches its insert.
Thm_C1 ==
    [][ /\ Arrives("signup") => users' = users
        /\ \A p \in Threads :
             /\ (StepsIn(p, "signup") /\ th[p].pc # "su_insert") => users' = users
             /\ (StepsFrom(p, "su_find") /\ up /\ HasEmail(users, th[p].email))
                  => /\ th'[p].pc = "idle"
                     /\ sent'.kind = "signup"
                     /\ sent'.resp = HttpError(400, "Email already registered") ]_vars

\* C1: a second signup with a registered email has just been refused
Wit_C1 ==
    /\ sent.kind = "signup"
    /\ sent.resp.status = 400
    /\ HasEmail(users, sent.email)

\* C2: while the store answers, a login whose email has no user record and a
\* login whose password is not the one stored for its email get one and the same
\* response, 401 "Invalid email or password", whatever the password; no step of
\* a login changes the users or the chats collection.
Cex_C2 ==
    [][ /\ Arrives("login") => (users' = users /\ chats' = chats)
        /\ \A p \in Threads :
             /\ StepsIn(p, "login") => (users' = users /\ chats' = chats)
             /\ (/\ StepsFrom(p, "li_find") /\ up
                 /\ \/ ~HasEmail(users, th[p].email)
                    \/ \E i \in 1..Len(users) :
                         /\ users[i].email = th[p].email
                         /\ \A j \in 1..(i - 1) : users[j].email # th[p].email
                         /\ users[i].password.digest[2] # th[p].password)
                  => /\ sent'.kind = "login"
                     /\ sent'.resp = [status |-> 401, detail |-> "Invalid email or password",
                                      body |-> << >>, escaped |-> ""]
                     /\ issued' = issued ]_vars

\* a GET /auth/me request carrying creds is accepted
MeArrives(creds) ==
    /\ nreq' = nreq + 1
    /\ \/ sent'.kind = "me" /\ sent'.creds = creds
       \/ \E p \in Threads : /\ th[p].pc = "idle" /\ th'[p].pc # "idle"
                             /\ th'[p].kind = "me" /\ th'[p].creds = creds

\* C3: a GET /auth/me that presents a token issued by signup or login before the
\* token's expiry (7 days after issue) is answered 200 with the id and email of
\* the user record the token was issued for; presented after the expiry instant
\* it is answered 401.
Thm_C3 ==
    [][ /\ \A i \in issued :
             /\ (MeArrives(Some(i.token)) /\ now < i.at + 7 * 24 * 60)
                  => \E p \in Threads :
                       /\ th'[p].pc = "me_body"
                       /\ th'[p].user = Some([id |-> ObjectIdStr(users[i.oid]._id),
                                              email |-> users[i.oid].email])
             /\ (MeArrives(Some(i.token)) /\ now > i.at + 7 * 24 * 60)
                  => (sent'.kind = "me" /\ sent'.resp.status = 401)
        /\ \A p \in Threads :
             StepsFrom(p, "me_body")
               => /\ sent'.kind = "me"
                  /\ sent'.creds = th[p].creds
                  /\ sent'.resp = [status |-> 200, detail |-> "", escaped |-> "",
                                   body |-> << [id |-> Val(th[p].user).id,
                                                email |-> Val(th[p].user).email] >>] ]_vars

\* C3: a token presented some days after its issue has just been accepted
Wit_C3 ==
    /\ sent.kind = "me"
    /\ sent.resp.status = 200
    /\ \E i \in issued :
         /\ sent.creds = Some(i.token)
         /\ i.at < now
         /\ sent.resp.body[1].email = users[i.oid].email

\* C8: a signup that has passed its lookup inserts its record whenever the store
\* answers, also when another signup has meanwhile inserted the same email: the
\* users collection gains a record with that email and an id no stored record
\* has, and the signup is answered 200 with that id.
Thm_C8 ==
    [][ \A p \in Threads :
          /\ (StepsFrom(p, "su_insert") /\ up)
               => /\ Len(users') = Len(users) + 1
                  /\ users'[Len(users')].email = th[p].email
                  /\ th'[p].pc = "su_token"
                  /\ th'[p].oid = users'[Len(users')]._id
                  /\ \A i \in 1..Len(users) : users[i]._id # th'[p].oid
          /\ StepsFrom(p, "su_token")
               => /\ sent'.kind = "signup"
                  /\ sent'.resp.status = 200
                  /\ sent'.resp.body[1].user = [id |-> ObjectIdStr(th[p].oid),
                                                email |-> th[p].email] ]_vars

\* C8: the second of two racing signups has just succeeded: two user records
\* with distinct ids share one email
Wit_C8 ==
    /\ sent.kind = "signup"
    /\ sent.resp.status = 200
    /\ \E i, j \in 1..Len(users) :
         /\ i < j
         /\ users[i].email = users[j].email
         /\ users[j].email = sent.email
         /\ users[i]._id # users[j]._id

\* C10: every handle a handler got from get_db belongs to a connection on which a
\* ping has succeeded, and while no call is inside the loop of get_db the cached
\* handle is unset or belongs to such a connection (a call whose pings all failed
\* leaves the cache unset).
Cex_C10 ==
    /\ \A p \in Threads : th[p].db # None => Val(th[p].db).client \in pinged
    /\ (\A p \in Threads : th[p].pc \notin GetDbLoop)
         => (_db # None => Val(_db).client \in pinged)

\* the token is none that was issued, or it was issued more than 7 days ago
BadCreds(creds) ==
    \/ creds = None
    \/ \A i \in issued : Some(i.token) # creds
    \/ \E i \in issued : Some(i.token) = creds /\ now > i.at + 7 * 24 * 60

\* the chat records of the user a list request's token names, by position in the
\* collection (the order of their inserts)
MineOf(creds) == { i \in 1..Len(chats) : chats[i].userId = Val(creds).claims.sub }
ItemOf(c) == [question |-> c.question, answer |-> c.answer, error |-> c.error,
              createdAt |-> << "iso-8601", c.createdAt >>]
\* the ways to lay the records out in a response of this length
Layouts(creds, n) ==
    { f \in [1..n -> MineOf(creds)] : \A k, l \in 1..n : k # l => f[k] # f[l] }

\* C4 (as amended): GET /chats for a user with N <= 100 records returns exactly
\* those N records, none of another user, and a record is listed before another
\* only if its createdAt, taken by its save before the insert, is not the later
\* one; nothing is said of the order of their inserts.
Thm_C4 ==
    (sent.kind = "list" /\ sent.resp.status = 200 /\ Cardinality(MineOf(sent.creds)) <= 100)
      => LET body == sent.resp.body[1].chats IN
         /\ Len(body) = Cardinality(MineOf(sent.creds))
         /\ \E f \in Layouts(sent.creds, Len(body)) :
              /\ \A k \in 1..Len(body) : body[k] = ItemOf(chats[f[k]])
              /\ \A k, l \in 1..Len(body) :
                   k < l => chats[f[k]].createdAt <= chats[f[l]].createdAt

\* C4: a list of a user's two records has just been returned: they differ, their
\* timestamps are equal, and the one inserted second is listed first
Wit_C4 ==
    /\ sent.kind = "list"
    /\ sent.resp.status = 200
    /\ Len(chats) = 2
    /\ MineOf(sent.creds) = {1, 2}
    /\ chats[1].createdAt = chats[2].createdAt
    /\ ItemOf(chats[1]) # ItemOf(chats[2])
    /\ sent.resp.body[1].chats = << ItemOf(chats[2]), ItemOf(chats[1]) >>

\* C4 (as claimed): GET /chats for a user with N <= 100 records returns exactly
\* those N records in the order their saves were made (the order of their
\* inserts), also when the saves ran concurrently; records with equal timestamps
\* are not compared.
Cex_C4 ==
    (sent.kind = "list" /\ sent.resp.status = 200 /\ Cardinality(MineOf(sent.creds)) <= 100)
      => LET body == sent.resp.body[1].chats IN
         /\ Len(body) = Cardinality(MineOf(sent.creds))
         /\ \E f \in Layouts(sent.creds, Len(body)) :
              /\ \A k \in 1..Len(body) : body[k] = ItemOf(chats[f[k]])
              /\ \A k, l \in 1..Len(body) :
                   (k < l /\ chats[f[k]].createdAt # chats[f[l]].createdAt) => f[k] < f[l]

\* C5: a GET /chats request whose token is missing, not an issued one or expired
\* is answered 401 by the dependency, in the step that accepts it: get_db is not
\* called (the globals of get_db are untouched, whatever the configuration and
\* the state of the server), and no thread goes on to the handler body with such
\* a token.
Thm_C5 ==
    [][ /\ (nreq' = nreq + 1 /\ sent'.kind = "list" /\ BadCreds(sent'.creds))
             => /\ sent'.resp = HttpError(401, IF sent'.creds = None
                                               THEN "Not authenticated" ELSE "Invalid token")
                /\ _db' = _db /\ _db_client' = _db_client /\ pinged' = pinged
                /\ th' = th
        /\ \A p \in Threads :
             (th[p].pc = "idle" /\ th'[p].pc # "idle" /\ th'[p].kind = "list")
               => ~BadCreds(th'[p].creds) ]_vars

\* C5: a GET /chats with an expired token has just been refused
Wit_C5 ==
    /\ sent.kind = "list"
    /\ sent.resp.status = 401
    /\ \E i \in issued : Some(i.token) = sent.creds /\ now > i.at + 7 * 24 * 60

\* the response reports that the store is not configured or that a store
\* operation failed
StorageFailure(resp) ==
    \/ resp.detail \in {"Database not configured", "Database error"}
    \/ resp.escaped = "PyMongoError"

\* C6: every response of a store endpoint to a storage failure, at whatever step
\* of the request the store became unreachable, has status 503.
Cex_C6 ==
    (sent.kind \in {"signup", "login", "save", "list"} /\ StorageFailure(sent.resp))
      => sent.resp.status = 503

\* C7: every step of POST /chat leaves the chats collection alone; a call that
\* fails in get_rag_chain (in the construction or in its closing print) is
\* answered 500, an invocation 200 or 500, and no exception leaves the handler.
Thm_C7 ==
    [][ /\ Arrives("chat") => chats' = chats
        /\ \A p \in Threads :
             /\ StepsIn(p, "chat") => chats' = chats
             /\ ((StepsFrom(p, "ch_construct") \/ StepsFrom(p, "ch_print"))
                 /\ th'[p].pc = "idle")
                  => /\ sent'.kind = "chat"
                     /\ sent'.resp.status = 500
                     /\ sent'.resp.escaped = ""
             /\ StepsFrom(p, "ch_return") => th'[p].pc = "ch_invoke"
             /\ StepsFrom(p, "ch_invoke")
                  => /\ sent'.kind = "chat"
                     /\ sent'.resp.status \in {200, 500}
                     /\ sent'.resp.escaped = "" ]_vars

\* C7: a POST /chat whose chain could not be constructed has just been answered 500
Wit_C7 ==
    /\ sent.kind = "chat"
    /\ sent.resp.status = 500
    /\ rag_chain = 0
    /\ constructed = 0

\* C9 (as amended): only a call whose first-use check finds the chain unset
\* constructs one; once the chain is set and no call is inside a construction it
\* never changes again; a construction that raises before its assignment leaves
\* the chain as it was, every other one assigns a new chain, also when the call
\* then fails in the closing print; every answer comes from the chain that was
\* set when the call returned from get_rag_chain.
Thm_C9 ==
    [][ /\ (rag_chain # 0 /\ \A q \in Threads : th[q].pc # "ch_construct")
             => (rag_chain' = rag_chain /\ constructed' = constructed)
        /\ \A p \in Threads :
             /\ (th[p].pc = "idle" /\ th'[p].kind = "chat")
                  => th'[p].pc = (IF rag_chain = 0 THEN "ch_construct" ELSE "ch_return")
             /\ (StepsFrom(p, "ch_construct") /\ th'[p].pc = "idle")
                  => (rag_chain' = rag_chain /\ constructed' = constructed)
             /\ (StepsFrom(p, "ch_construct") /\ th'[p].pc # "idle")
                  => (constructed' = constructed + 1 /\ rag_chain' = constructed')
             /\ StepsFrom(p, "ch_print")
                  => (rag_chain' = rag_chain /\ rag_chain # 0)
             /\ StepsFrom(p, "ch_return")
                  => (th'[p].chain = rag_chain /\ th'[p].chain \in 1..constructed)
             /\ (StepsFrom(p, "ch_invoke") /\ sent'.resp.status = 200)
                  => sent'.chain = th[p].chain ]_vars

\* C9: an answer has just been given by the first chain after two racing calls
\* each constructed one
Wit_C9 ==
    /\ sent.kind = "chat"
    /\ sent.resp.status = 200
    /\ constructed = 2
    /\ rag_chain = 2
    /\ sent.chain = 1

\* C9 (as claimed): in every execution the construction completes at most once
\* and every answer comes from that one instance.
Cex_C9 ==
    /\ constructed <= 1
    /\ (sent.kind = "chat" /\ sent.resp.status = 200) => sent.chain = 1

====
